---- MODULE Spec2Model ----
(***************************************************************************)
(* rqt_plot: the field-path resolver (plot_widget.get_plot_fields,         *)
(* rosplot._get_topic_type, rosplot.generate_field_evals), the buffered    *)
(* per-topic sampler (rosplot.ROSData) and the panel (PlotWidget) that     *)
(* keeps sample streams and curves together.                               *)
(*                                                                         *)
(* Python strings are TLA+ strings (Len, SubSeq and \o work on them), so   *)
(* slicing, splitting, formatting and parsing are computed, not assumed.   *)
(***************************************************************************)
EXTENDS Integers, Sequences, FiniteSets, TLC

\* F(v) and F(v, w), the arguments evaluated once however often F uses them
Let1(v, F(_)) == CHOOSE y \in {F(x) : x \in {v}} : TRUE

Let2(v, w, F(_, _)) == CHOOSE y \in {F(x, z) : x \in {v}, z \in {w}} : TRUE

(***************************************************************************)
(* Python string primitives                                                *)
(***************************************************************************)
MinOf(a, b) == IF a < b THEN a ELSE b

\* s[i] for a 1-based i
Ch(s, i) == SubSeq(s, i, i)

\* s[n:] for n >= 0
DropStr(s0, n0) ==
    Let2(s0, n0, LAMBDA s, n : IF n >= Len(s) THEN "" ELSE SubSeq(s, n + 1, Len(s)))

\* s[:n]; a negative n counts from the end, as a Python slice does
TakeStr(s0, n0) ==
    Let2(s0, n0, LAMBDA s, n :
        Let1(IF n < 0 THEN Len(s) + n ELSE MinOf(n, Len(s)), LAMBDA m :
            IF m <= 0 THEN "" ELSE SubSeq(s, 1, m)))

\* s.startswith(p)
StartsWith(s0, p0) ==
    Let2(s0, p0, LAMBDA s, p : Len(p) <= Len(s) /\ TakeStr(s, Len(p)) = p)

\* s.endswith(p)
EndsWith(s0, p0) ==
    Let2(s0, p0, LAMBDA s, p : Len(p) <= Len(s) /\ DropStr(s, Len(s) - Len(p)) = p)

\* c in s, for a single character c
Contains(s0, c0) == Let2(s0, c0, LAMBDA s, c : \E i \in 1..Len(s) : Ch(s, i) = c)

\* s.find(c) for a single character c: the 0-based index, or -1
Find(s0, c0) ==
    Let2(s0, c0, LAMBDA s, c :
        IF Contains(s, c)
        THEN (CHOOSE i \in 1..Len(s) :
                 Ch(s, i) = c /\ \A j \in 1..(i - 1) : Ch(s, j) # c) - 1
        ELSE -1)

RECURSIVE RStrip(_, _)
\* s.rstrip(c)
RStrip(s0, c) ==
    Let1(s0, LAMBDA s :
        IF Len(s) > 0 /\ Ch(s, Len(s)) = c THEN RStrip(TakeStr(s, Len(s) - 1), c) ELSE s)

RECURSIVE Split(_, _)
\* s.split(c): every piece, the empty ones included
Split(s0, c) ==
    Let1(s0, LAMBDA s :
        Let1(Find(s, c), LAMBDA i :
            IF i < 0 THEN <<s>> ELSE <<TakeStr(s, i)>> \o Split(DropStr(s, i + 1), c)))

\* s.split(c, maxsplit=1)
SplitMax1(s0, c) ==
    Let1(s0, LAMBDA s :
        Let1(Find(s, c), LAMBDA i :
            IF i < 0 THEN <<s>> ELSE <<TakeStr(s, i), DropStr(s, i + 1)>>))

\* [f for f in pieces if f]
NonEmpty(pieces) == SelectSeq(pieces, LAMBDA f : f # "")

Digits == "0123456789"

IsDigit(c) == Contains(Digits, c)

DigitVal(c) == Find(Digits, c)

RECURSIVE DigitsVal(_)
DigitsVal(s0) ==
    Let1(s0, LAMBDA s :
        IF s = "" THEN 0
        ELSE 10 * DigitsVal(TakeStr(s, Len(s) - 1)) + DigitVal(Ch(s, Len(s))))

AllDigits(s0) == Let1(s0, LAMBDA s : s # "" /\ \A i \in 1..Len(s) : IsDigit(Ch(s, i)))

\* int(s): ok is FALSE where Python raises ValueError
ParseInt(s0) ==
    Let1(s0, LAMBDA s :
        IF AllDigits(s) THEN [ok |-> TRUE, v |-> DigitsVal(s)]
        ELSE IF StartsWith(s, "-") /\ AllDigits(DropStr(s, 1))
             THEN [ok |-> TRUE, v |-> 0 - DigitsVal(DropStr(s, 1))]
             ELSE [ok |-> FALSE, v |-> 0])

RECURSIVE FormatNat(_)
FormatNat(n0) ==
    Let1(n0, LAMBDA n :
        IF n < 10 THEN Ch(Digits, n + 1)
        ELSE FormatNat(n \div 10) \o Ch(Digits, (n % 10) + 1))

\* "%d" % n
FormatInt(n) == IF n < 0 THEN "-" \o FormatNat(0 - n) ELSE FormatNat(n)

\* the characters of the model's strings, in code-point order
Alphabet == "*,-/0123456789<>[]_abcdefghijklmnopqrstuvwxyz"

Rank(c) == Find(Alphabet, c)

RECURSIVE StrLess(_, _)
\* a < b on Python strings
StrLess(a0, b0) ==
    Let2(a0, b0, LAMBDA a, b :
        IF b = "" THEN FALSE
        ELSE IF a = "" THEN TRUE
        ELSE IF Ch(a, 1) = Ch(b, 1) THEN StrLess(DropStr(a, 1), DropStr(b, 1))
        ELSE Rank(Ch(a, 1)) < Rank(Ch(b, 1)))

(***************************************************************************)
(* The middleware's side: message schemas, message classes and the type    *)
(* helpers of rqt_py_common that the resolver calls.  Optional values are  *)
(* <<>> (None) or <<v>>.                                                   *)
(***************************************************************************)
None == <<>>

Some(v) == <<v>>

\* get_message_class(t) of an unknown type
NoClass == ""

\* get_fields_and_field_types() of each message class, in slot order
FieldsAndFieldTypes(cls) ==
    CASE cls = "pkg/T" ->
           << <<"x", "double">>, <<"b", "boolean">>, <<"s", "string">>,
              <<"a", "sequence<double>">>, <<"f", "double[2]">>,
              <<"g", "sequence<double, 2>">>, <<"p", "pkg/P">>,
              <<"q", "sequence<pkg/P>">>, <<"ba", "sequence<boolean>">>,
              <<"bf", "boolean[2]">>, <<"n", "int32[3]">> >>
      [] cls = "pkg/P" -> << <<"u", "double">>, <<"n", "int32">> >>
      [] cls = "pkg/S" -> << <<"header", "string">>, <<"v", "double">> >>
      [] cls = "pkg/H" ->
           << <<"header", "std_msgs/Header">>, <<"v", "double">>, <<"w", "double">> >>
      [] cls = "std_msgs/Header" ->
           << <<"stamp", "builtin_interfaces/Time">>, <<"frame_id", "string">> >>
      [] cls = "builtin_interfaces/Time" ->
           << <<"sec", "int32">>, <<"nanosec", "uint32">> >>
      [] OTHER -> <<>>

MessageTypes ==
    {"pkg/T", "pkg/P", "pkg/S", "pkg/H", "std_msgs/Header", "builtin_interfaces/Time"}

\* message_helpers.get_message_class
get_message_class(t) == IF t \in MessageTypes THEN t ELSE NoClass

\* hasattr(field_class, "get_fields_and_field_types")
HasFieldsAndFieldTypes(cls) == cls \in MessageTypes

FieldNames(cls) ==
    [i \in 1..Len(FieldsAndFieldTypes(cls)) |-> FieldsAndFieldTypes(cls)[i][1]]

HasField(cls, name) ==
    \E i \in 1..Len(FieldsAndFieldTypes(cls)) : FieldsAndFieldTypes(cls)[i][1] = name

\* fields_and_field_types[name]
FieldType(cls, name) ==
    Let1(FieldsAndFieldTypes(cls), LAMBDA fs :
        fs[CHOOSE i \in 1..Len(fs) : fs[i][1] = name][2])

\* message_field_type_helpers.MessageFieldTypeInfo(type_str)
MessageFieldTypeInfo(t0) ==
    Let1(t0, LAMBDA t :
    IF StartsWith(t, "sequence<")
    THEN Let1(TakeStr(DropStr(t, Len("sequence<")), -1), LAMBDA inner :
         Let1(Split(inner, ","), LAMBDA parts :
             IF Len(parts) = 1
             THEN [base_type_str |-> inner, is_array |-> TRUE,
                   is_static_array |-> FALSE, static_array_size |-> None,
                   is_bounded_array |-> FALSE, bounded_array_size |-> None,
                   is_unbounded_array |-> TRUE]
             ELSE [base_type_str |-> parts[1], is_array |-> TRUE,
                   is_static_array |-> FALSE, static_array_size |-> None,
                   is_bounded_array |-> TRUE,
                   bounded_array_size |-> Some(ParseInt(DropStr(parts[2], 1)).v),
                   is_unbounded_array |-> FALSE]))
    ELSE IF EndsWith(t, "]")
    THEN [base_type_str |-> TakeStr(t, Find(t, "[")), is_array |-> TRUE,
          is_static_array |-> TRUE,
          static_array_size |->
              Some(ParseInt(TakeStr(DropStr(t, Find(t, "[") + 1), -1)).v),
          is_bounded_array |-> FALSE, bounded_array_size |-> None,
          is_unbounded_array |-> FALSE]
    ELSE [base_type_str |-> t, is_array |-> FALSE,
          is_static_array |-> FALSE, static_array_size |-> None,
          is_bounded_array |-> FALSE, bounded_array_size |-> None,
          is_unbounded_array |-> FALSE])

\* message_field_type_helpers.is_primitive_type
is_primitive_type(t) ==
    t \in {"double", "float", "boolean", "string", "octet",
           "int8", "uint8", "int16", "uint16", "int32", "uint32", "int64", "uint64"}

\* message_field_type_helpers.get_type_class: a Python class, or the message class
get_type_class(t) ==
    CASE t \in {"double", "float"} -> "float"
      [] t \in {"int8", "uint8", "int16", "uint16", "int32", "uint32", "int64", "uint64"}
           -> "int"
      [] t = "boolean" -> "bool"
      [] t = "string" -> "str"
      [] t = "octet" -> "bytes"
      [] OTHER -> get_message_class(t)

\* message_field_type_helpers.separate_field_from_array_information
separate_field_from_array_information(field0) ==
    Let1(field0, LAMBDA field :
        IF Contains(field, "[")
        THEN Let1(SplitMax1(field, "["), LAMBDA parts :
             Let1(ParseInt(Split(parts[2], "]")[1]), LAMBDA ix :
                 [field |-> parts[1], is_array |-> TRUE,
                  index |-> IF ix.ok THEN Some(ix.v) ELSE None, ok |-> ix.ok]))
        ELSE [field |-> field, is_array |-> FALSE, index |-> None, ok |-> TRUE])

(***************************************************************************)
(* rosplot.py: topic resolution                                            *)
(***************************************************************************)
RECURSIVE NestedAttributeFrom(_, _)
\* getattr along attrs on a default-constructed message of class cls: FALSE
\* where Python raises AttributeError.  A field of message type holds a
\* message; an array holds a list and a primitive a number or a string,
\* neither of which has a schema field as attribute.
NestedAttributeFrom(cls0, attrs0) ==
    Let2(cls0, attrs0, LAMBDA cls, attrs :
        IF attrs = <<>> THEN TRUE
        ELSE IF ~HasField(cls, attrs[1]) THEN FALSE
        ELSE Let1(MessageFieldTypeInfo(FieldType(cls, attrs[1])), LAMBDA info :
                 IF Len(attrs) = 1 THEN TRUE
                 ELSE IF info.is_array \/ get_message_class(info.base_type_str) = NoClass
                      THEN FALSE
                      ELSE NestedAttributeFrom(info.base_type_str, Tail(attrs))))

\* _get_nested_attribute(msg_class(), nested_attributes) does not raise
_get_nested_attribute(cls, nested_attributes) ==
    NestedAttributeFrom(cls, Split(nested_attributes, "/"))

\* [(t_name, t_type) for t_type in t_types]
TypesOf(t_name, t_types) ==
    Let2(t_name, t_types, LAMBDA n, ts : [i \in 1..Len(ts) |-> <<n, ts[i]>>])

RECURSIVE FullMatches(_, _)
FullMatches(topic_names_and_types0, path_to_field) ==
    Let1(topic_names_and_types0, LAMBDA topic_names_and_types :
        IF topic_names_and_types = <<>> THEN <<>>
        ELSE Let1(topic_names_and_types[1], LAMBDA e :
                 (IF e[1] = path_to_field THEN TypesOf(e[1], e[2]) ELSE <<>>)
                   \o FullMatches(Tail(topic_names_and_types), path_to_field)))

RECURSIVE PrefixMatches(_, _)
PrefixMatches(topic_names_and_types0, path_to_field) ==
    Let1(topic_names_and_types0, LAMBDA topic_names_and_types :
        IF topic_names_and_types = <<>> THEN <<>>
        ELSE Let1(topic_names_and_types[1], LAMBDA e :
                 (IF StartsWith(path_to_field, e[1] \o "/")
                  THEN TypesOf(e[1], e[2]) ELSE <<>>)
                   \o PrefixMatches(Tail(topic_names_and_types), path_to_field)))

RECURSIVE InsertReverse(_, _)
\* m put behind every element whose name is not smaller: a stable descending sort
InsertReverse(sorted0, m0) ==
    Let2(sorted0, m0, LAMBDA sorted, m :
        IF sorted = <<>> THEN <<m>>
        ELSE IF StrLess(sorted[1][1], m[1]) THEN <<m>> \o sorted
        ELSE <<sorted[1]>> \o InsertReverse(Tail(sorted), m))

RECURSIVE SortReverseFrom(_, _)
SortReverseFrom(sorted0, matches0) ==
    Let2(sorted0, matches0, LAMBDA sorted, matches :
        IF matches = <<>> THEN sorted
        ELSE SortReverseFrom(InsertReverse(sorted, matches[1]), Tail(matches)))

\* a faulty variant of SortReverse: the matches stay in the order of the list
SortKeepsOrder(matches) == matches

\* matches.sort(key=itemgetter(0), reverse=True)
SortReverse(matches) == SortReverseFrom(<<>>, matches)

\* msg_class is the class of the first match and nested_attributes the path
\* behind its name, up to the first bracket
RECURSIVE IgnoreFieldless(_, _)
\* the while loop of _get_topic_type
IgnoreFieldless(matches0, path_to_field) ==
    Let1(matches0, LAMBDA matches :
        IF matches = <<>> THEN <<>>
        ELSE Let2(get_message_class(matches[1][2]),
                  Split(RStrip(DropStr(path_to_field, Len(matches[1][1]) + 1), "/"),
                        "[")[1],
                  LAMBDA msg_class, nested_attributes :
                 IF msg_class = NoClass THEN matches
                 ELSE IF nested_attributes = "" THEN matches
                 ELSE IF ~_get_nested_attribute(msg_class, nested_attributes)
                      THEN IgnoreFieldless(Tail(matches), path_to_field)
                      ELSE <<matches[1]>>))

NotResolved == [found |-> FALSE, topic_type |-> "", real_topic |-> "", rest |-> ""]

\* a faulty variant of TopicTypeOf: the rest is cut behind the slash
TopicTypeOfFieldName(matches, path_to_field) ==
    IF matches = <<>> THEN NotResolved
    ELSE IF matches[1][2] = "*" THEN NotResolved
    ELSE [found |-> TRUE, topic_type |-> matches[1][2], real_topic |-> matches[1][1],
          rest |-> DropStr(path_to_field, Len(matches[1][1]) + 1)]

\* the return of _get_topic_type, matches being what the loop left
TopicTypeOf(matches, path_to_field) ==
    IF matches = <<>> THEN NotResolved
    ELSE IF matches[1][2] = "*" THEN NotResolved
    ELSE [found |-> TRUE, topic_type |-> matches[1][2], real_topic |-> matches[1][1],
          rest |-> DropStr(path_to_field, Len(matches[1][1]))]

\* _get_topic_type: (topic_type, real_topic, rest), found FALSE for (None, None, None)
_get_topic_type(topic_names_and_types, path_to_field) ==
    Let1(FullMatches(topic_names_and_types, path_to_field), LAMBDA full :
        IF full # <<>> THEN TopicTypeOf(full, path_to_field)
        ELSE Let1(IgnoreFieldless(
                      SortReverse(PrefixMatches(topic_names_and_types, path_to_field)),
                      path_to_field),
                  LAMBDA matches : TopicTypeOf(matches, path_to_field)))

\* get_topic_type(node, path_to_field), the node's topic list being graph
get_topic_type(graph, path_to_field) ==
    Let1(_get_topic_type(graph, path_to_field), LAMBDA r :
        IF r.found /\ r.topic_type # "" THEN r ELSE NotResolved)

(***************************************************************************)
(* rosplot.py: field evaluators                                            *)
(***************************************************************************)
\* _array_eval(field_name, slot_num)
_array_eval(field_name, slot_num) ==
    [kind |-> "array", field_name |-> field_name, slot_num |-> slot_num]

\* _field_eval(field_name)
_field_eval(field_name) == [kind |-> "field", field_name |-> field_name, slot_num |-> 0]

\* the slot number of one bracketed segment: int(rest[:rest.find(']')])
SlotNum(f) ==
    Let1(SplitMax1(f, "[")[2], LAMBDA rest : ParseInt(TakeStr(rest, Find(rest, "]"))))

\* the evaluator of one segment of the path
FieldEvalOf(f0) ==
    Let1(f0, LAMBDA f :
        IF Contains(f, "[")
        THEN _array_eval(SplitMax1(f, "[")[1], SlotNum(f).v)
        ELSE _field_eval(f))

\* generate_field_evals(fields): ok FALSE where it raises RosPlotException
generate_field_evals(fields) ==
    Let1(NonEmpty(Split(fields, "/")), LAMBDA fs :
        IF \E i \in 1..Len(fs) : Contains(fs[i], "[") /\ ~SlotNum(fs[i]).ok
        THEN [ok |-> FALSE, evals |-> <<>>]
        ELSE [ok |-> TRUE, evals |-> [i \in 1..Len(fs) |-> FieldEvalOf(fs[i])]])

(***************************************************************************)
(* plot_widget.py: the field-path resolver                                 *)
(***************************************************************************)
\* _parse_type(topic_type_str): slot type, is_array, array size (None if unbounded)
_parse_type(topic_type_str) ==
    Let1(MessageFieldTypeInfo(topic_type_str), LAMBDA topic_type_info :
        [slot_type |-> topic_type_info.base_type_str,
         is_array |-> topic_type_info.is_array,
         array_size |->
             IF topic_type_info.is_static_array THEN topic_type_info.static_array_size
             ELSE IF topic_type_info.is_bounded_array
                  THEN topic_type_info.bounded_array_size
                  ELSE None])

\* one pass of the loop of get_plot_fields, on the segment field
WalkField(st, field) ==
    Let1(separate_field_from_array_information(field), LAMBDA sep :
        IF \/ ~sep.ok
           \/ ~HasFieldsAndFieldTypes(st.field_class)
           \/ ~HasField(st.field_class, sep.field)
        THEN [st EXCEPT !.failed = TRUE]
        ELSE Let1(_parse_type(FieldType(st.field_class, sep.field)), LAMBDA pt :
                 [field_class |-> get_type_class(pt.slot_type),
                  slot_type |-> pt.slot_type,
                  is_array |-> pt.is_array,
                  array_size |-> pt.array_size,
                  field_index |-> sep.index,
                  failed |-> FALSE]))

RECURSIVE WalkFields(_, _)
\* the loop of get_plot_fields over the path's segments; failed marks an early
\* return of no path
WalkFields(st0, fields0) ==
    Let2(st0, fields0, LAMBDA st, fields :
        IF fields = <<>> \/ st.failed THEN st
        ELSE WalkFields(WalkField(st, fields[1]), Tail(fields)))

\* a faulty variant of IndexedPaths: it counts from one
IndexedPathsFromOne(topic_name, array_size) ==
    [i \in 1..array_size |-> topic_name \o "[" \o FormatInt(i) \o "]"]

\* ["%s[%d]" % (topic_name, i) for i in range(array_size)]
IndexedPaths(topic_name, array_size) ==
    [i \in 1..array_size |-> topic_name \o "[" \o FormatInt(i - 1) \o "]"]

\* the slots of a message class that are a single int or float
NumericFields(field_class) ==
    Let1(SelectSeq(FieldsAndFieldTypes(field_class),
             LAMBDA e : Let1(_parse_type(e[2]), LAMBDA pt :
                          /\ get_type_class(pt.slot_type) \in {"int", "float"}
                          /\ ~pt.is_array)),
         LAMBDA slots : [i \in 1..Len(slots) |-> slots[i][1]])

\* ["%s/%s" % (topic_name, f) for f in numeric_fields]
ChildPaths(topic_name, numeric_fields) ==
    [i \in 1..Len(numeric_fields) |-> topic_name \o "/" \o numeric_fields[i]]

\* the end of get_plot_fields, the path's segments walked to st
PlotFieldsAt(topic_name, st) ==
    IF st.failed THEN <<>>
    ELSE IF st.field_class \in {"int", "float", "bool"}
    THEN IF st.is_array
         THEN IF st.array_size # None
              THEN IndexedPaths(topic_name, st.array_size[1])
              ELSE IF st.field_index # None THEN <<topic_name>> ELSE <<>>
         ELSE <<topic_name>>
    ELSE IF ~is_primitive_type(st.slot_type)
         THEN ChildPaths(topic_name, NumericFields(st.field_class))
         ELSE <<>>

\* the loop of get_plot_fields run on the path behind the topic that
\* get_topic_type resolved as r
WalkFrom(r, topic_name) ==
    WalkFields([field_class |-> get_message_class(r.topic_type),
                slot_type |-> r.topic_type,
                is_array |-> FALSE,
                array_size |-> None,
                field_index |-> None,
                failed |-> FALSE],
               NonEmpty(Split(DropStr(topic_name, Len(r.real_topic) + 1), "/")))

\* get_plot_fields(node, topic_name): the list of plottable paths
get_plot_fields(graph, topic_name) ==
    Let1(get_topic_type(graph, topic_name), LAMBDA r :
        IF ~r.found THEN <<>>
        ELSE IF get_message_class(r.topic_type) = NoClass THEN <<>>
        ELSE Let1(WalkFrom(r, topic_name), LAMBDA st : PlotFieldsAt(topic_name, st)))

(***************************************************************************)
(* Messages.  A Python value is tagged: a number (int, float, bool), a     *)
(* string, a list or a message whose attributes are its slots.  A time is  *)
(* the pair <<sec, nanosec>>, so that sec + nanosec * 10**-9 is exact.     *)
(***************************************************************************)
Num(n) == [t |-> "num", v |-> n]

Str(s) == [t |-> "str", v |-> s]

List(l) == [t |-> "list", v |-> l]

Msg(cls, slots) == [t |-> "msg", v |-> slots, cls |-> cls]

\* the messages a publisher of each class sends, by number
MessagesOf(cls) ==
    CASE cls = "pkg/T" ->
           << Msg("pkg/T", [x |-> Num(6), b |-> Num(1), s |-> Str("k"),
                            a |-> List(<<Num(8), Num(9)>>),
                            f |-> List(<<Num(2), Num(3)>>),
                            g |-> List(<<Num(4), Num(5)>>),
                            p |-> Msg("pkg/P", [u |-> Num(7), n |-> Num(1)]),
                            q |-> List(<<>>), ba |-> List(<<Num(1)>>),
                            bf |-> List(<<Num(1), Num(0)>>),
                            n |-> List(<<Num(1), Num(2), Num(3)>>)]),
              Msg("pkg/T", [x |-> Num(7), b |-> Num(0), s |-> Str("k"),
                            a |-> List(<<Num(8)>>),
                            f |-> List(<<Num(2), Num(3)>>),
                            g |-> List(<<Num(4)>>),
                            p |-> Msg("pkg/P", [u |-> Num(7), n |-> Num(1)]),
                            q |-> List(<<>>), ba |-> List(<<>>),
                            bf |-> List(<<Num(0), Num(0)>>),
                            n |-> List(<<Num(1), Num(2), Num(3)>>)]) >>
      [] cls = "pkg/P" -> << Msg("pkg/P", [u |-> Num(7), n |-> Num(1)]) >>
      [] cls = "pkg/S" -> << Msg("pkg/S", [header |-> Str("k"), v |-> Num(5)]) >>
      [] cls = "pkg/H" ->
           << Msg("pkg/H",
                  [header |-> Msg("std_msgs/Header",
                                  [stamp |-> Msg("builtin_interfaces/Time",
                                                 [sec |-> Num(4), nanosec |-> Num(5)]),
                                   frame_id |-> Str("k")]),
                   v |-> Num(3), w |-> Num(2)]) >>
      [] OTHER -> <<>>

\* the most messages MessagesOf gives for a class
MaxVariants == 2

\* hasattr(val, name)
HasAttr(val, name) == val.t = "msg" /\ name \in DOMAIN val.v

(***************************************************************************)
(* rosplot.py: ROSData                                                     *)
(***************************************************************************)
\* one evaluator applied: the value, or the exception Python raises
ApplyEval(e, val) ==
    IF ~HasAttr(val, e.field_name) THEN [exc |-> "AttributeError", val |-> val]
    ELSE LET attr == val.v[e.field_name]
         IN  IF e.kind = "field" THEN [exc |-> "", val |-> attr]
             ELSE IF attr.t = "list"
             THEN LET n == Len(attr.v)
                      i == IF e.slot_num < 0 THEN e.slot_num + n ELSE e.slot_num
                  IN  IF i < 0 \/ i >= n THEN [exc |-> "IndexError", val |-> attr]
                      ELSE [exc |-> "", val |-> attr.v[i + 1]]
             ELSE IF attr.t = "str"
             THEN LET n == Len(attr.v)
                      i == IF e.slot_num < 0 THEN e.slot_num + n ELSE e.slot_num
                  IN  IF i < 0 \/ i >= n THEN [exc |-> "IndexError", val |-> attr]
                      ELSE [exc |-> "", val |-> Str(Ch(attr.v, i + 1))]
             \* a number or a message has no __getitem__
             ELSE [exc |-> "AttributeError", val |-> attr]

RECURSIVE ApplyEvals(_, _)
\* for f in self.field_evals: val = f(val)
ApplyEvals(evals, val) ==
    IF evals = <<>> THEN [exc |-> "", val |-> val]
    ELSE Let1(ApplyEval(evals[1], val), LAMBDA r :
             IF r.exc # "" THEN r ELSE ApplyEvals(Tail(evals), r.val))

\* float(val)
ToFloat(val) ==
    CASE val.t = "num" -> [exc |-> "", v |-> val.v]
      [] val.t = "str" ->
           IF ParseInt(val.v).ok THEN [exc |-> "", v |-> ParseInt(val.v).v]
           ELSE [exc |-> "ValueError", v |-> 0]
      [] OTHER -> [exc |-> "TypeError", v |-> 0]

\* ROSData._get_data(msg): ret is "value" (v the float), "None" (error set to
\* the RosPlotException named by error) or "raise" (exc leaves _get_data)
_get_data(field_evals, msg) ==
    Let1(IF field_evals = <<>>
         THEN [exc |-> "",
               val |-> IF msg.cls = "std_msgs/Bool" THEN msg.v["data"] ELSE msg]
         ELSE ApplyEvals(field_evals, msg), LAMBDA r :
        IF r.exc = "IndexError" THEN [ret |-> "None", v |-> 0, error |-> "index", exc |-> ""]
        ELSE IF r.exc # "" THEN [ret |-> "raise", v |-> 0, error |-> "", exc |-> r.exc]
        ELSE Let1(ToFloat(r.val), LAMBDA f :
            IF f.exc = "TypeError"
            THEN [ret |-> "None", v |-> 0, error |-> "not numeric", exc |-> ""]
            ELSE IF f.exc # "" THEN [ret |-> "raise", v |-> 0, error |-> "", exc |-> f.exc]
            ELSE [ret |-> "value", v |-> f.v, error |-> "", exc |-> ""]))

\* the time of a header stamp, sec + nanosec * 10**-9, as <<sec, nanosec>>;
\* exc is the exception that reading msg.header.stamp raises
StampedTime(msg) ==
    LET header == msg.v["header"]
    IN  IF ~HasAttr(header, "stamp") THEN [exc |-> "AttributeError", t |-> <<0, 0>>]
        ELSE LET stamp == header.v["stamp"]
             IN  IF ~HasAttr(stamp, "sec") \/ ~HasAttr(stamp, "nanosec")
                 THEN [exc |-> "AttributeError", t |-> <<0, 0>>]
                 ELSE IF stamp.v["sec"].t # "num" \/ stamp.v["nanosec"].t # "num"
                 THEN [exc |-> "TypeError", t |-> <<0, 0>>]
                 ELSE [exc |-> "", t |-> <<stamp.v["sec"].v, stamp.v["nanosec"].v>>]

\* a faulty variant of SinceStart: the sample's time is stored as it is
SinceStartAbsolute(t, start_time) == t

\* t - self.start_time, start_time being whole seconds
SinceStart(t, start_time) == <<t[1] - start_time, t[2]>>

\* ROSData.__init__(node, topic, start_time) against the node's topic list graph;
\* raised where generate_field_evals raises.  app_* is everything the
\* callbacks appended and ret_* everything next() returned, for the record.
ROSData(graph, topic, start_time) ==
    Let1(get_topic_type(graph, topic), LAMBDA r :
    Let1(IF r.found THEN generate_field_evals(r.rest) ELSE [ok |-> TRUE, evals |-> <<>>],
         LAMBDA fe :
        [raised |-> r.found /\ ~fe.ok,
         obj |-> [name |-> topic, start_time |-> start_time,
                  error |-> IF r.found THEN "" ELSE "Can not resolve topic type",
                  lock |-> FALSE, buff_x |-> <<>>, buff_y |-> <<>>,
                  field_evals |-> fe.evals,
                  real_topic |-> r.real_topic,
                  data_class |-> get_message_class(r.topic_type),
                  sub |-> IF r.found THEN "live" ELSE "none",
                  app_x |-> <<>>, app_y |-> <<>>, ret_x |-> <<>>, ret_y |-> <<>>]]))

\* a faulty variant of RosCbBody: the callback replaces the evaluators
RosCbReresolves(d, msg, clock) == [d EXCEPT !.field_evals = <<>>]

\* the body of ROSData._ros_cb between lock.acquire() and lock.release(),
\* the wall clock reading clock
RosCbBody(d, msg, clock) ==
    Let1(_get_data(d.field_evals, msg), LAMBDA y :
    Let1([d EXCEPT !.buff_y = Append(@, IF y.ret = "value" THEN Some(y.v) ELSE None),
                   !.app_y = Append(@, IF y.ret = "value" THEN Some(y.v) ELSE None),
                   !.error = IF y.ret = "None" THEN y.error ELSE @], LAMBDA withy :
        IF y.ret = "raise"
        THEN IF y.exc = "AttributeError"
             THEN [d EXCEPT !.error = "Invalid topic spec"]
             ELSE d
        ELSE IF HasAttr(msg, "header")
        THEN Let1(StampedTime(msg), LAMBDA st :
                 IF st.exc = "AttributeError"
                 THEN [withy EXCEPT !.error = "Invalid topic spec"]
                 ELSE IF st.exc # "" THEN withy
                 ELSE [withy EXCEPT
                          !.buff_x = Append(@, SinceStart(st.t, d.start_time)),
                          !.app_x = Append(@, SinceStart(st.t, d.start_time))])
        ELSE [withy EXCEPT !.buff_x = Append(@, SinceStart(<<clock, 0>>, d.start_time)),
                           !.app_x = Append(@, SinceStart(<<clock, 0>>, d.start_time))]))

\* a faulty variant of NextSwapBuffers: the buffers are returned and kept
NextSwapKeeps(d) ==
    [d EXCEPT !.ret_x = @ \o d.buff_x, !.ret_y = @ \o d.buff_y]

\* the critical section of ROSData.next(): both buffers taken and replaced
NextSwapBuffers(d) ==
    [d EXCEPT !.buff_x = <<>>, !.buff_y = <<>>,
              !.ret_x = @ \o d.buff_x, !.ret_y = @ \o d.buff_y]

\* ROSData.close(): node.destroy_subscription(self.sub)
Close(d) == [d EXCEPT !.sub = "destroyed"]

(***************************************************************************)
(* data_plot: the plot surface.  A curve is the number of plot items the   *)
(* plot widget holds for its id and the data handed to it.                 *)
(***************************************************************************)
\* add_curve(curve_id, curve_name, data_x, data_y)
add_curve(cs, curve_id, data_x, data_y) ==
    LET items == IF curve_id \in DOMAIN cs THEN cs[curve_id].items + 1 ELSE 1
    IN  [k \in DOMAIN cs \cup {curve_id} |->
            IF k = curve_id THEN [items |-> items, x |-> data_x, y |-> data_y] ELSE cs[k]]

\* remove_curve(curve_id), with the legend rebuilt from the curves left
remove_curve(cs, curve_id) ==
    IF curve_id \in DOMAIN cs
    THEN [k \in DOMAIN cs \ {curve_id} |-> [cs[k] EXCEPT !.items = 1]]
    ELSE cs

\* update_values(curve_id, data_x, data_y)
update_values(cs, curve_id, data_x, data_y) ==
    [cs EXCEPT ![curve_id] = [@ EXCEPT !.x = @ \o data_x, !.y = @ \o data_y]]

\* clear_values(curve_id)
clear_values(cs, curve_id) ==
    [cs EXCEPT ![curve_id] = [@ EXCEPT !.x = <<>>, !.y = <<>>]]

(***************************************************************************)
(* The environment of the panel                                            *)
(***************************************************************************)
\* messages delivered to callbacks in one run
MaxMsgs == 2

\* time.time() when the panel is constructed, in whole seconds
StartTime == 1

\* node.get_topic_names_and_types() once the publishers of a deployment are
\* discovered: one with a headerless topic and a topic whose header slot is a
\* string, one with a stamped topic
Deployments ==
    { << <<"/t", <<"pkg/T">> >>, <<"/s", <<"pkg/S">> >> >>,
      << <<"/h", <<"pkg/H">> >> >> }

\* node.get_topic_names_and_types() before any publisher is discovered
GraphDown == <<>>

\* what the user types into topic_edit or drops on the plot
UserPaths == {"/t/a[1]", "/s/v", "/h", "/h/v"}

\* the initial_topics argument of the panel
InitialTopicChoices == {None, Some(<<"/t/a[1]">>)}

Range(f) == {f[i] : i \in DOMAIN f}

\* every topic list the panel's node can report
Graphs == Deployments \cup {GraphDown}

\* every path add_topic can be called with
PanelPaths ==
    UserPaths \cup UNION {Range(c[1]) : c \in InitialTopicChoices \ {None}}

\* get_plot_fields(node, topic_name)[0] for each topic list and path of the panel
PlotFields ==
    [graph \in Graphs |->
        [topic_name \in PanelPaths |-> get_plot_fields(graph, topic_name)]]

\* the keys _rosdata can get
StreamNames ==
    UNION {Range(PlotFields[graph][topic_name]) : graph \in Graphs, topic_name \in PanelPaths}

\* ROSData(node, topic, start_time) for each topic list and key of the panel
Constructed ==
    [graph \in Graphs |->
        [topic \in StreamNames |->
            [start_time \in {StartTime} |-> ROSData(graph, topic, start_time)]]]

VARIABLES
    _rosdata,          \* PlotWidget._rosdata: topic name -> ROSData
    order,             \* the insertion order of _rosdata's keys
    data_plot,         \* PlotWidget.data_plot: 0 is None, 1 a surface
    curves,            \* the curves of the surface data_plot
    _initial_topics,   \* PlotWidget._initial_topics: None or Some(list)
    pause_button,      \* pause_button.isChecked()
    timer,             \* _update_plot_timer is running
    menu,              \* the labels of _remove_topic_menu's actions
    _start_time,       \* PlotWidget._start_time
    now,               \* the wall clock
    ui,                \* where the UI thread is in the handler it runs
    cb,                \* where the executor thread is in the callback it runs
    orphan_subs,       \* live subscriptions of streams dropped from _rosdata
    delivered,         \* messages delivered so far
    topics_up,         \* the node's topic list once the publishers are discovered
    query              \* the last path resolved on its own, and the result

vars == <<_rosdata, order, data_plot, curves, _initial_topics, pause_button, timer,
          menu, _start_time, now, ui, cb, orphan_subs, delivered, topics_up, query>>

\* node.get_topic_names_and_types() at some moment
PanelGraphs == {topics_up, GraphDown}

panel_vars == <<_rosdata, order, data_plot, curves, _initial_topics, pause_button,
                timer, menu, _start_time, now, ui, cb, orphan_subs, delivered, topics_up>>

\* the UI thread between handlers; before is, during a tick of update_plot, the
\* number of samples each stream had been given when the tick began, and
\* returned how many values next() had returned from each stream by then
Idle == [pc |-> "idle", op |-> "", topics |-> <<>>, cur |-> "", changed |-> FALSE,
         nested |-> FALSE, init |-> <<>>, before |-> <<>>, returned |-> <<>>]

CbIdle == [pc |-> "idle", key |-> "", msg |-> 0, orphan |-> FALSE]

NoQuery == [path |-> "", graph |-> <<>>, fields |-> <<>>, resolved |-> NotResolved,
            reads |-> <<>>, children |-> <<>>, done |-> FALSE]

\* the panel after PlotWidget.__init__
Init ==
    /\ _rosdata = <<>>
    /\ order = <<>>
    /\ data_plot = 0
    /\ curves = <<>>
    /\ _initial_topics \in InitialTopicChoices
    /\ pause_button \in BOOLEAN
    /\ timer = FALSE
    /\ menu = <<>>
    /\ _start_time = StartTime
    /\ now = StartTime
    /\ ui = Idle
    /\ cb = CbIdle
    /\ orphan_subs = 0
    /\ delivered = 0
    /\ topics_up \in Deployments
    /\ query = NoQuery

Keys == DOMAIN _rosdata

\* a dict without key k
Without(d, k) == [j \in DOMAIN d \ {k} |-> d[j]]

\* a dict with d[k] = v
With(d, k, v) == [j \in DOMAIN d \cup {k} |-> IF j = k THEN v ELSE d[j]]

RemoveKey(seq, k) == SelectSeq(seq, LAMBDA j : j # k)

RECURSIVE SortedNames(_)
\* sorted(names)
SortedNames(names) ==
    IF names = {} THEN <<>>
    ELSE LET least == CHOOSE n \in names : \A o \in names : ~StrLess(o, n)
         IN  <<least>> \o SortedNames(names \ {least})

\* _update_remove_topic_menu: the labels of the actions, in menu order, for
\* each set of keys _rosdata can have
MenuLabels ==
    [names \in SUBSET StreamNames |->
        SortedNames(names) \o (IF Cardinality(names) > 1 THEN <<"All">> ELSE <<>>)]

\* the menu _update_remove_topic_menu leaves with _rosdata = rosdata
RemoveTopicMenu(rosdata) == MenuLabels[DOMAIN rosdata]

\* enable_timer(enabled): whether the timer runs afterwards
enable_timer(enabled) == enabled

\* a faulty variant of TimerAfterChange: the pause button is not looked at
TimerIgnoresPause(rosdata, t) == enable_timer(DOMAIN rosdata # {})

\* _subscribed_topics_changed with _rosdata = rosdata, the timer being t before:
\* the timer afterwards (the menu is RemoveTopicMenu(rosdata))
TimerAfterChange(rosdata, t) ==
    IF ~pause_button THEN enable_timer(DOMAIN rosdata # {}) ELSE t

\* the callback in flight on stream k runs on an object _rosdata no longer holds
Orphaned(dropped) ==
    IF cb.pc # "idle" /\ cb.key \in dropped THEN [cb EXCEPT !.orphan = TRUE] ELSE cb

(***************************************************************************)
(* PlotWidget.add_topic, a step at a time: callbacks run between the steps *)
(***************************************************************************)
\* add_topic(topic_name) entered: get_plot_fields against the topic list graph
BeginAddTopic(topic_name, graph, nested, init) ==
    [pc |-> "add_loop", op |-> "add", topics |-> PlotFields[graph][topic_name],
     cur |-> "", changed |-> FALSE, nested |-> nested, init |-> init,
     before |-> <<>>, returned |-> <<>>]

\* the user adds a topic (button, return key or drop)
AddTopic(topic_name, graph) ==
    /\ ui.pc = "idle"
    /\ ui' = BeginAddTopic(topic_name, graph, FALSE, <<>>)
    /\ UNCHANGED <<_rosdata, order, data_plot, curves, _initial_topics, pause_button,
                   timer, menu, _start_time, now, cb, orphan_subs, delivered, topics_up, query>>

\* a faulty variant of AddTopicSkip: the stream is constructed and drawn again
AddTopicResubscribes ==
    /\ ui.pc = "add_loop"
    /\ ui.topics # <<>>
    /\ ui.topics[1] \in Keys
    /\ _rosdata' = [_rosdata EXCEPT ![ui.topics[1]] =
                        Constructed[topics_up][ui.topics[1]][_start_time].obj]
    /\ curves' = IF data_plot = 0 THEN curves
                 ELSE add_curve(curves, ui.topics[1], <<>>, <<>>)
    /\ ui' = [ui EXCEPT !.topics = Tail(@)]
    /\ UNCHANGED <<order, data_plot, _initial_topics, pause_button,
                   timer, menu, _start_time, now, cb, orphan_subs, delivered, topics_up, query>>

\* "topic already subscribed": continue
AddTopicSkip ==
    /\ ui.pc = "add_loop"
    /\ ui.topics # <<>>
    /\ ui.topics[1] \in Keys
    /\ ui' = [ui EXCEPT !.topics = Tail(@)]
    /\ UNCHANGED <<_rosdata, order, data_plot, curves, _initial_topics, pause_button,
                   timer, menu, _start_time, now, cb, orphan_subs, delivered, topics_up, query>>

\* self._rosdata[topic_name] = ROSData(self._node, topic_name, self._start_time)
AddTopicConstruct(graph) ==
    /\ ui.pc = "add_loop"
    /\ ui.topics # <<>>
    /\ ui.topics[1] \notin Keys
    /\ LET k == ui.topics[1]
           c == Constructed[graph][k][_start_time]
       IN  IF c.raised
           THEN /\ ui' = Idle
                /\ UNCHANGED <<_rosdata, order>>
           ELSE /\ _rosdata' = With(_rosdata, k, c.obj)
                /\ order' = Append(order, k)
                /\ ui' = [ui EXCEPT !.pc = "add_check", !.cur = k]
    /\ UNCHANGED <<data_plot, curves, _initial_topics, pause_button, timer, menu,
                   _start_time, now, cb, orphan_subs, delivered, topics_up, query>>

\* if self._rosdata[topic_name].error is not None: del self._rosdata[topic_name]
AddTopicCheck ==
    /\ ui.pc = "add_check"
    /\ IF _rosdata[ui.cur].error # ""
       THEN /\ _rosdata' = Without(_rosdata, ui.cur)
            /\ order' = RemoveKey(order, ui.cur)
            /\ orphan_subs' = orphan_subs + (IF _rosdata[ui.cur].sub = "live" THEN 1 ELSE 0)
            /\ cb' = Orphaned({ui.cur})
            /\ ui' = [ui EXCEPT !.pc = "add_loop", !.topics = Tail(@)]
       ELSE /\ ui' = [ui EXCEPT !.pc = "next_err"]
            /\ UNCHANGED <<_rosdata, order, orphan_subs, cb>>
    /\ UNCHANGED <<data_plot, curves, _initial_topics, pause_button, timer, menu,
                   _start_time, now, delivered, topics_up, query>>

\* add_topic's call of next(): if self.error: raise self.error, which leaves
\* add_topic (and switch_data_plot_widget around it)
AddTopicNext ==
    /\ ui.pc = "next_err"
    /\ ui' = IF _rosdata[ui.cur].error # "" THEN Idle ELSE [ui EXCEPT !.pc = "next_acq"]
    /\ UNCHANGED <<_rosdata, order, data_plot, curves, _initial_topics, pause_button,
                   timer, menu, _start_time, now, cb, orphan_subs, delivered, topics_up, query>>

\* the end of add_topic: _subscribed_topics_changed if a topic was added; inside
\* switch_data_plot_widget the next initial topic follows, and after the last
\* one _initial_topics = None and _subscribed_topics_changed
AddTopicReturn ==
    /\ ui.pc = "add_loop"
    /\ ui.topics = <<>>
    /\ LET t1 == IF ui.changed THEN TimerAfterChange(_rosdata, timer) ELSE timer
           m1 == IF ui.changed THEN RemoveTopicMenu(_rosdata) ELSE menu
       IN  IF ~ui.nested
           THEN /\ ui' = Idle
                /\ timer' = t1
                /\ menu' = m1
                /\ UNCHANGED _initial_topics
           ELSE IF ui.init # <<>>
           THEN /\ \E graph \in PanelGraphs :
                      ui' = BeginAddTopic(ui.init[1], graph, TRUE, Tail(ui.init))
                /\ timer' = t1
                /\ menu' = m1
                /\ UNCHANGED _initial_topics
           ELSE /\ ui' = Idle
                /\ _initial_topics' = None
                /\ timer' = TimerAfterChange(_rosdata, t1)
                /\ menu' = RemoveTopicMenu(_rosdata)
    /\ UNCHANGED <<_rosdata, order, data_plot, curves, pause_button, _start_time, now,
                   cb, orphan_subs, delivered, topics_up, query>>

(***************************************************************************)
(* ROSData.next() on the UI thread, after its error check                  *)
(***************************************************************************)
\* a faulty variant of LockAcquire: nothing is taken
LockNotTaken(d) == d

\* self.lock.acquire()
LockAcquire(d) == [d EXCEPT !.lock = TRUE]

\* self.lock.release()
LockRelease(d) == [d EXCEPT !.lock = FALSE]

NextAcquire ==
    /\ ui.pc = "next_acq"
    /\ ~_rosdata[ui.cur].lock
    /\ _rosdata' = [_rosdata EXCEPT ![ui.cur] = LockAcquire(@)]
    /\ ui' = [ui EXCEPT !.pc = "next_swap"]
    /\ UNCHANGED <<order, data_plot, curves, _initial_topics, pause_button, timer, menu,
                   _start_time, now, cb, orphan_subs, delivered, topics_up, query>>

\* the buffers are taken, the lock released and the pair returned to the caller:
\* add_topic and switch_data_plot_widget add a curve with it, update_plot
\* updates the curve if either list is not empty
NextReturn ==
    /\ ui.pc = "next_swap"
    /\ LET d == _rosdata[ui.cur]
           data_x == d.buff_x
           data_y == d.buff_y
       IN  /\ _rosdata' = [_rosdata EXCEPT ![ui.cur] = LockRelease(NextSwapBuffers(d))]
           /\ CASE ui.op = "add" ->
                     IF data_plot = 0
                     THEN ui' = Idle /\ UNCHANGED curves
                     ELSE /\ curves' = add_curve(curves, ui.cur, data_x, data_y)
                          /\ ui' = [ui EXCEPT !.pc = "add_loop", !.topics = Tail(@),
                                              !.changed = TRUE]
                [] ui.op = "switch" ->
                     /\ curves' = add_curve(curves, ui.cur, data_x, data_y)
                     /\ ui' = [ui EXCEPT !.pc = "sw_loop", !.topics = Tail(@)]
                [] OTHER ->
                     IF data_x = <<>> /\ data_y = <<>>
                     THEN /\ ui' = [ui EXCEPT !.pc = "upd_loop", !.topics = Tail(@)]
                          /\ UNCHANGED curves
                     ELSE IF ui.cur \in DOMAIN curves
                     THEN /\ curves' = update_values(curves, ui.cur, data_x, data_y)
                          /\ ui' = [ui EXCEPT !.pc = "upd_loop", !.topics = Tail(@),
                                              !.changed = TRUE]
                     ELSE ui' = Idle /\ UNCHANGED curves
    /\ UNCHANGED <<order, data_plot, _initial_topics, pause_button, timer, menu,
                   _start_time, now, cb, orphan_subs, delivered, topics_up, query>>

(***************************************************************************)
(* PlotWidget.update_plot: the timer's tick                                *)
(***************************************************************************)
UpdatePlot ==
    /\ ui.pc = "idle"
    /\ timer
    /\ data_plot # 0
    /\ ui' = [Idle EXCEPT !.pc = "upd_loop", !.op = "update", !.topics = order,
                          !.before = [k \in Keys |-> Len(_rosdata[k].app_y)],
                          !.returned = [k \in Keys |-> Len(_rosdata[k].ret_x)
                                                        + Len(_rosdata[k].ret_y)]]
    /\ UNCHANGED <<_rosdata, order, data_plot, curves, _initial_topics, pause_button,
                   timer, menu, _start_time, now, cb, orphan_subs, delivered, topics_up, query>>

\* a faulty variant of UpdatePlotLoop: next() does not look at the error
UpdatePlotLoopDrains ==
    /\ ui.pc = "upd_loop"
    /\ ui' = IF ui.topics = <<>> THEN Idle
             ELSE [ui EXCEPT !.pc = "next_acq", !.cur = ui.topics[1]]
    /\ UNCHANGED <<_rosdata, order, data_plot, curves, _initial_topics, pause_button,
                   timer, menu, _start_time, now, cb, orphan_subs, delivered, topics_up, query>>

\* a faulty variant of UpdatePlotLoop: the exception of next() is not caught
UpdatePlotLoopRaises ==
    /\ ui.pc = "upd_loop"
    /\ ui' = IF ui.topics = <<>> THEN Idle
             ELSE IF _rosdata[ui.topics[1]].error # "" THEN Idle
                  ELSE [ui EXCEPT !.pc = "next_acq", !.cur = ui.topics[1]]
    /\ UNCHANGED <<_rosdata, order, data_plot, curves, _initial_topics, pause_button,
                   timer, menu, _start_time, now, cb, orphan_subs, delivered, topics_up, query>>

\* the next stream of the tick: next() raises at once if its error is set, which
\* update_plot catches; after the last stream the surface is redrawn if
\* ui.changed (needs_redraw)
UpdatePlotLoop ==
    /\ ui.pc = "upd_loop"
    /\ ui' = IF ui.topics = <<>> THEN Idle
             ELSE IF _rosdata[ui.topics[1]].error # ""
                  THEN [ui EXCEPT !.topics = Tail(@)]
                  ELSE [ui EXCEPT !.pc = "next_acq", !.cur = ui.topics[1]]
    /\ UNCHANGED <<_rosdata, order, data_plot, curves, _initial_topics, pause_button,
                   timer, menu, _start_time, now, cb, orphan_subs, delivered, topics_up, query>>

(***************************************************************************)
(* PlotWidget.switch_data_plot_widget                                      *)
(***************************************************************************)
\* the surface handed to switch_data_plot_widget: one with no curve yet (which
\* surface it is does not matter, only that one is set)
FreshSurface == 1

SwitchDataPlotWidget ==
    /\ ui.pc = "idle"
    /\ timer' = enable_timer(FALSE)
    /\ data_plot' = FreshSurface
    /\ curves' = <<>>
    /\ IF _initial_topics # None /\ _initial_topics[1] # <<>>
       THEN \E graph \in PanelGraphs :
                ui' = BeginAddTopic(_initial_topics[1][1], graph, TRUE,
                                    Tail(_initial_topics[1]))
       ELSE ui' = [Idle EXCEPT !.pc = "sw_loop", !.op = "switch", !.topics = order]
    /\ UNCHANGED <<_rosdata, order, _initial_topics, pause_button, menu, _start_time,
                   now, cb, orphan_subs, delivered, topics_up, query>>

\* the next stream of the switch: next() raises at once if its error is set,
\* which leaves switch_data_plot_widget; after the last stream
\* _subscribed_topics_changed
SwitchLoop ==
    /\ ui.pc = "sw_loop"
    /\ IF ui.topics = <<>>
       THEN /\ ui' = Idle
            /\ menu' = RemoveTopicMenu(_rosdata)
            /\ timer' = TimerAfterChange(_rosdata, timer)
       ELSE /\ ui' = IF _rosdata[ui.topics[1]].error # "" THEN Idle
                     ELSE [ui EXCEPT !.pc = "next_acq", !.cur = ui.topics[1]]
            /\ UNCHANGED <<menu, timer>>
    /\ UNCHANGED <<_rosdata, order, data_plot, curves, _initial_topics, pause_button,
                   _start_time, now, cb, orphan_subs, delivered, topics_up, query>>

(***************************************************************************)
(* The handlers that call neither next() nor the constructor               *)
(***************************************************************************)
\* remove_topic(topic_name), from the action of the remove menu labelled
\* topic_name; with no surface remove_curve raises and the rest is skipped
RemoveTopic(topic_name) ==
    /\ ui.pc = "idle"
    /\ topic_name \in Range(menu) \ {"All"}
    /\ topic_name \in Keys
    /\ _rosdata' = Without(_rosdata, topic_name)
    /\ order' = RemoveKey(order, topic_name)
    /\ cb' = Orphaned({topic_name})
    /\ IF data_plot = 0
       THEN UNCHANGED <<curves, menu, timer>>
       ELSE /\ curves' = remove_curve(curves, topic_name)
            /\ menu' = RemoveTopicMenu(Without(_rosdata, topic_name))
            /\ timer' = TimerAfterChange(Without(_rosdata, topic_name), timer)
    /\ UNCHANGED <<data_plot, _initial_topics, pause_button, _start_time, now, ui,
                   orphan_subs, delivered, topics_up, query>>

RECURSIVE RemoveCurves(_, _)
RemoveCurves(cs, ids) ==
    IF ids = <<>> THEN cs ELSE RemoveCurves(remove_curve(cs, ids[1]), Tail(ids))

\* clean_up_subscribers, from the menu's All action or the plugin's shutdown;
\* with no surface the first remove_curve raises, after the first close()
CleanUpSubscribers ==
    /\ ui.pc = "idle"
    /\ IF data_plot = 0 /\ order # <<>>
       THEN /\ _rosdata' = [_rosdata EXCEPT ![order[1]] = Close(@)]
            /\ UNCHANGED <<order, curves, menu, timer, cb>>
       ELSE /\ _rosdata' = <<>>
            /\ order' = <<>>
            /\ curves' = RemoveCurves(curves, order)
            /\ cb' = Orphaned(Keys)
            /\ menu' = RemoveTopicMenu(<<>>)
            /\ timer' = TimerAfterChange(<<>>, timer)
    /\ UNCHANGED <<data_plot, _initial_topics, pause_button, _start_time, now, ui,
                   orphan_subs, delivered, topics_up, query>>

RECURSIVE ClearCurves(_, _)
\* clear_values for each stream in turn, up to the first one without a curve
ClearCurves(cs, ids) ==
    IF ids = <<>> \/ ids[1] \notin DOMAIN cs THEN cs
    ELSE ClearCurves(clear_values(cs, ids[1]), Tail(ids))

\* clear_plot
ClearPlot ==
    /\ ui.pc = "idle"
    /\ data_plot # 0
    /\ curves' = ClearCurves(curves, order)
    /\ UNCHANGED <<_rosdata, order, data_plot, _initial_topics, pause_button, timer,
                   menu, _start_time, now, ui, cb, orphan_subs, delivered, topics_up, query>>

\* on_pause_button_clicked(checked): enable_timer(not checked)
PauseButtonClicked ==
    /\ ui.pc = "idle"
    /\ pause_button' = ~pause_button
    /\ timer' = enable_timer(~pause_button')
    /\ UNCHANGED <<_rosdata, order, data_plot, curves, _initial_topics, menu,
                   _start_time, now, ui, cb, orphan_subs, delivered, topics_up, query>>

(***************************************************************************)
(* ROSData._ros_cb on the executor thread                                  *)
(***************************************************************************)
\* a message arrives for the live subscription of stream k: self.lock.acquire()
RosCbAcquire(k, m) ==
    /\ cb.pc = "idle"
    /\ delivered < MaxMsgs
    /\ k \in Keys
    /\ _rosdata[k].sub = "live"
    /\ m \in 1..Len(MessagesOf(_rosdata[k].data_class))
    /\ ~_rosdata[k].lock
    /\ _rosdata' = [_rosdata EXCEPT ![k] = LockAcquire(@)]
    /\ cb' = [pc |-> "body", key |-> k, msg |-> m, orphan |-> FALSE]
    /\ now' = now + 1
    /\ delivered' = delivered + 1
    /\ UNCHANGED <<order, data_plot, curves, _initial_topics, pause_button, timer, menu,
                   _start_time, ui, orphan_subs, topics_up, query>>

\* the body, then finally: self.lock.release(); on a stream dropped meanwhile
\* the callback ends on the dropped object
RosCbRelease ==
    /\ cb.pc = "body"
    /\ cb' = CbIdle
    /\ IF cb.orphan
       THEN UNCHANGED _rosdata
       ELSE _rosdata' =
              [_rosdata EXCEPT ![cb.key] =
                  LockRelease(RosCbBody(@, MessagesOf(@.data_class)[cb.msg], now))]
    /\ UNCHANGED <<order, data_plot, curves, _initial_topics, pause_button, timer, menu,
                   _start_time, now, ui, orphan_subs, delivered, topics_up, query>>

Next ==
    \/ \E topic_name \in UserPaths, graph \in PanelGraphs : AddTopic(topic_name, graph)
    \/ AddTopicSkip
    \/ \E graph \in PanelGraphs : AddTopicConstruct(graph)
    \/ AddTopicCheck
    \/ AddTopicNext
    \/ AddTopicReturn
    \/ NextAcquire
    \/ NextReturn
    \/ UpdatePlot
    \/ UpdatePlotLoop
    \/ SwitchDataPlotWidget
    \/ SwitchLoop
    \/ \E topic_name \in Keys : RemoveTopic(topic_name)
    \/ CleanUpSubscribers
    \/ ClearPlot
    \/ PauseButtonClicked
    \/ \E k \in Keys, m \in 1..MaxVariants : RosCbAcquire(k, m)
    \/ RosCbRelease

Spec == Init /\ [][Next]_vars

(***************************************************************************)
(* The resolver on its own: get_plot_fields and get_topic_type applied to  *)
(* one path against one topic list                                         *)
(***************************************************************************)
\* topic lists: the two deployments, a topic /t/p beside the slot p of /t
\* (once of the slot's type, once of a type without the slot's fields), a
\* topic of the wildcard type, a topic whose type has no class, and no topic
FieldGraphs ==
    Deployments \cup
    { << <<"/t", <<"pkg/T">> >>, <<"/t/p", <<"pkg/P">> >> >>,
      << <<"/t", <<"pkg/T">> >>, <<"/t/p", <<"pkg/S">> >> >>,
      << <<"/t", <<"*">> >> >>,
      << <<"/t", <<"pkg/U">> >> >>,
      GraphDown }

\* paths: scalars, strings, arrays of each kind with and without an index,
\* messages, arrays of messages, slots that do not exist, a malformed index
FieldPaths ==
    {"/t", "/t/x", "/t/b", "/t/s", "/t/a", "/t/a[0]", "/t/a[1]", "/t/f", "/t/f[1]",
     "/t/g", "/t/g[0]", "/t/ba", "/t/ba[0]", "/t/bf", "/t/bf[1]", "/t/n", "/t/n[2]",
     "/t/p", "/t/p/u", "/t/q", "/t/q[0]", "/t/zz", "/t/a[k]", "/s/v", "/h", "/h/v",
     "/t/"}

\* a path and a topic list picked, nothing resolved yet
InitFields ==
    /\ _rosdata = <<>>
    /\ order = <<>>
    /\ data_plot = 0
    /\ curves = <<>>
    /\ _initial_topics = None
    /\ pause_button = FALSE
    /\ timer = FALSE
    /\ menu = <<>>
    /\ _start_time = StartTime
    /\ now = StartTime
    /\ ui = Idle
    /\ cb = CbIdle
    /\ orphan_subs = 0
    /\ delivered = 0
    /\ topics_up = GraphDown
    /\ \E p \in FieldPaths, g \in FieldGraphs :
           query = [NoQuery EXCEPT !.path = p, !.graph = g]

\* a stream constructed for topic as add_topic constructs it, and what
\* _get_data makes of each message of the stream's class with its evaluators
ReadsOf(graph, topic) ==
    Let1(ROSData(graph, topic, StartTime), LAMBDA c :
        [raised |-> c.raised,
         error |-> c.obj.error,
         data |-> IF c.raised THEN <<>>
                  ELSE [j \in 1..Len(MessagesOf(c.obj.data_class)) |->
                           _get_data(c.obj.field_evals, MessagesOf(c.obj.data_class)[j])]])

\* for a path that ends at a message (or at the topic), get_plot_fields of
\* each slot of that message addressed on its own, as path/slot
ChildrenOf(graph, topic_name) ==
    Let1(get_topic_type(graph, topic_name), LAMBDA r :
        IF ~r.found \/ get_message_class(r.topic_type) = NoClass THEN <<>>
        ELSE Let1(WalkFrom(r, topic_name), LAMBDA st :
                 IF st.failed \/ ~HasFieldsAndFieldTypes(st.field_class) THEN <<>>
                 ELSE Let1(FieldNames(st.field_class), LAMBDA names :
                          [i \in 1..Len(names) |->
                              [slot |-> names[i],
                               fields |-> get_plot_fields(
                                              graph, topic_name \o "/" \o names[i])]])))

\* get_plot_fields(node, path)[0] and get_topic_type(node, path), each
\* returned path read with the evaluators a stream builds for it, and each
\* slot of the message the path ends at resolved on its own
Resolve ==
    /\ ~query.done
    /\ \E fields \in {get_plot_fields(query.graph, query.path)} :
           query' = [query EXCEPT !.fields = fields,
                                  !.resolved = get_topic_type(query.graph, query.path),
                                  !.reads = [i \in 1..Len(fields) |->
                                                ReadsOf(query.graph, fields[i])],
                                  !.children = ChildrenOf(query.graph, query.path),
                                  !.done = TRUE]
    /\ UNCHANGED panel_vars

NextFields == Resolve

SpecFields == InitFields /\ [][NextFields]_vars

(***************************************************************************)
(* Properties of the panel and of a stream (under Spec)                    *)
(***************************************************************************)
\* the streams' keys are the curve ids, one plot item each
Lockstep ==
    /\ DOMAIN curves = Keys
    /\ \A k \in Keys : curves[k].items = 1

\* C1: whenever a surface is set and no handler is running, the topic names
\* in _rosdata are exactly the curve ids of the surface, one curve per stream
C1_StreamsAndCurvesInLockstep ==
    (data_plot # 0 /\ ui.pc = "idle") => Lockstep

\* C2: whenever a stream's lock is free its buff_x and buff_y have the same
\* length, and next() has returned as many x as y
C2_BuffersSameLength ==
    \A k \in Keys :
        /\ ~_rosdata[k].lock => Len(_rosdata[k].buff_x) = Len(_rosdata[k].buff_y)
        /\ Len(_rosdata[k].ret_x) = Len(_rosdata[k].ret_y)

\* C3: for a stream whose error is not set, what next() has returned so far,
\* followed by what is still buffered, is what the callbacks appended, in the
\* order they appended it: nothing is lost, returned twice or reordered
C3_NothingLostOrRepeated ==
    \A k \in Keys :
        _rosdata[k].error = "" =>
            /\ _rosdata[k].ret_y \o _rosdata[k].buff_y = _rosdata[k].app_y
            /\ _rosdata[k].ret_x \o _rosdata[k].buff_x = _rosdata[k].app_x

\* a sample has been returned by next() and a later one is still buffered
C3_Witness ==
    \E k \in Keys :
        /\ _rosdata[k].error = ""
        /\ Len(_rosdata[k].ret_y) = 1
        /\ Len(_rosdata[k].buff_y) = 1

\* the callback is inside its critical section on the stream _rosdata[k]
CbInside(k) == cb.pc = "body" /\ ~cb.orphan /\ cb.key = k

\* next() is inside its critical section on the stream _rosdata[k]
NextInside(k) == ui.pc = "next_swap" /\ ui.cur = k

\* C4: the callback and next() are never inside their critical sections on
\* the same stream together, and a stream's lock is held only while one of
\* them is inside: it is free once either has finished, also when the
\* callback's body raised
C4_LockExcludesAndIsReleased ==
    \A k \in Keys :
        /\ ~(CbInside(k) /\ NextInside(k))
        /\ _rosdata[k].lock => (CbInside(k) \/ NextInside(k))

\* a callback whose body raised AttributeError has finished and the stream's
\* lock is free
C4_Witness ==
    \E k \in Keys :
        /\ _rosdata[k].error = "Invalid topic spec"
        /\ cb.pc = "idle"
        /\ ~_rosdata[k].lock

\* C5: during a tick of update_plot, every stream the loop has passed has had
\* the samples it was given before the tick began returned by next()
C5_EveryStreamDrainedOnTick ==
    (ui.op = "update" /\ ui.pc = "upd_loop") =>
        \A i \in 1..(Len(order) - Len(ui.topics)) :
            Len(_rosdata[order[i]].ret_y) >= ui.before[order[i]]

\* C6: every element of buff_y, and every value next() returned, is a number
C6_ValuesAreNumbers ==
    \A k \in Keys :
        /\ \A i \in 1..Len(_rosdata[k].buff_y) : _rosdata[k].buff_y[i] # None
        /\ \A i \in 1..Len(_rosdata[k].ret_y) : _rosdata[k].ret_y[i] # None

\* C7: no stream has left _rosdata with its subscription alive, and no stream
\* still in _rosdata has lost its subscription
C7_SubscriptionsEndWithStreams ==
    /\ orphan_subs = 0
    /\ \A k \in Keys : _rosdata[k].sub # "destroyed"

\* C8: no step changes field_evals, the subscribed topic or the message class
\* of a stream that stays in _rosdata
C8_ResolvedOnce ==
    [][\A k \in Keys \cap DOMAIN _rosdata' :
          /\ _rosdata'[k].field_evals = _rosdata[k].field_evals
          /\ _rosdata'[k].real_topic = _rosdata[k].real_topic
          /\ _rosdata'[k].data_class = _rosdata[k].data_class]_vars

\* a stream with evaluators has had two callbacks and a next() between them
C8_Witness ==
    \E k \in Keys :
        /\ _rosdata[k].field_evals # <<>>
        /\ Len(_rosdata[k].app_y) = 2
        /\ Len(_rosdata[k].ret_y) = 1

(***************************************************************************)
(* Properties of the resolver (under SpecFields)                           *)
(***************************************************************************)
\* where the loop of get_plot_fields ends on the resolved path
Leaf == WalkFrom(query.resolved, query.path)

\* the path was resolved and names a numeric or boolean array
ArrayQuery ==
    /\ query.done
    /\ query.resolved.found
    /\ get_message_class(query.resolved.topic_type) # NoClass
    /\ ~Leaf.failed
    /\ Leaf.is_array
    /\ Leaf.field_class \in {"int", "float", "bool"}

\* C9: a path whose last segment indexes a numeric or boolean array resolves
\* to that one path
C9_IndexedElementIsOnePath ==
    (ArrayQuery /\ Leaf.field_index # None) => query.fields = <<query.path>>

\* C10: a path naming a numeric or boolean array without an index resolves to
\* path[0] ... path[N-1] in this order if the array's size N is known, and to
\* no path if the array is unbounded
C10_ArrayEnumerated ==
    (ArrayQuery /\ Leaf.field_index = None) =>
        IF Leaf.array_size # None
        THEN /\ Len(query.fields) = Leaf.array_size[1]
             /\ \A i \in 1..Len(query.fields) :
                    /\ StartsWith(query.fields[i], query.path \o "[")
                    /\ EndsWith(query.fields[i], "]")
                    /\ ParseInt(TakeStr(DropStr(query.fields[i], Len(query.path) + 1),
                                        -1)) = [ok |-> TRUE, v |-> i - 1]
        ELSE query.fields = <<>>

\* an array of three elements named without an index has been resolved
C10_Witness ==
    /\ ArrayQuery
    /\ Leaf.field_index = None
    /\ Len(query.fields) = 3

\* C11: every path get_plot_fields returns is read, by the evaluators built
\* for it, as a number from every message of the topic's class: constructing
\* the stream does not raise, and no read raises or sets the stream's error
C11_ReturnedPathsAreReadable ==
    \A i \in 1..Len(query.reads) :
        /\ ~query.reads[i].raised
        /\ query.reads[i].error = ""
        /\ \A j \in 1..Len(query.reads[i].data) : query.reads[i].data[j].ret = "value"

\* C12: no step changes _start_time, every stream carries the panel's
\* _start_time as its start_time, and whenever a stream stores a timestamp it
\* is the time of the message the callback is handling (the header's stamp if
\* the message has a header, the wall clock otherwise) minus _start_time
C12_TimestampsSinceSessionStart ==
    [][/\ _start_time' = _start_time
       /\ \A k \in DOMAIN _rosdata' : _rosdata'[k].start_time = _start_time
       /\ \A k \in Keys \cap DOMAIN _rosdata' :
              Len(_rosdata'[k].app_x) > Len(_rosdata[k].app_x) =>
                  /\ cb.pc = "body" /\ cb.key = k
                  /\ \E msg \in {MessagesOf(_rosdata[k].data_class)[cb.msg]} :
                     \E t \in {IF HasAttr(msg, "header") THEN StampedTime(msg).t
                                ELSE <<now, 0>>} :
                         /\ _rosdata'[k].app_x =
                                Append(_rosdata[k].app_x, <<t[1] - _start_time, t[2]>>)
                         /\ _rosdata'[k].buff_x =
                                Append(_rosdata[k].buff_x, <<t[1] - _start_time, t[2]>>)]_vars

\* two messages have been delivered, a surface is set, and a stream holds the
\* timestamp of one stamped message: the stamp 4 s 5 ns less the start time 1
C12_Witness ==
    \E k \in Keys :
        /\ _rosdata[k].data_class = "pkg/H"
        /\ _rosdata[k].app_x = <<<<3, 5>>>>
        /\ delivered = 2
        /\ data_plot # 0

\* C13: a switch_data_plot_widget that finds no initial topics adds no stream
\* to _rosdata and takes none from it, and when it ends the new surface holds
\* exactly one curve for every stream in _rosdata, whatever their state
C13_SwitchRebuildsEveryCurve ==
    [][ui.op = "switch" =>
          /\ DOMAIN _rosdata' = DOMAIN _rosdata
          /\ \A k \in Keys : _rosdata'[k].sub = _rosdata[k].sub
          /\ ui'.pc = "idle" => Lockstep']_vars

\* C14: when add_topic comes to a field path that is already a key of
\* _rosdata, its step past that path leaves every stream (buffers, error,
\* subscription), the keys and their order, every curve and the subscriptions
\* of dropped streams as they were
C14_AddTopicIdempotent ==
    [][(/\ ui.pc = "add_loop"
        /\ ui.topics # <<>>
        /\ ui.topics[1] \in Keys
        /\ ui' # ui) =>
           /\ _rosdata' = _rosdata
           /\ order' = order
           /\ curves' = curves
           /\ orphan_subs' = orphan_subs]_vars

\* add_topic("/h") has passed "/h/v", which was a stream with a buffered sample
\* and a curve already, and has added nothing
C14_Witness ==
    /\ ui.pc = "add_loop"
    /\ ui.topics = <<"/h/w">>
    /\ ~ui.changed
    /\ "/h/v" \in Keys
    /\ "/h/v" \in DOMAIN curves
    /\ _rosdata["/h/v"].buff_y # <<>>

\* C15: whenever no handler is running and the pause button is not checked,
\* the redraw timer runs exactly if _rosdata holds at least one stream
C15_TimerRunsIffSubscribed ==
    (ui.pc = "idle" /\ ~pause_button) => (timer <=> Keys # {})

NextUnderWay(k) == ui.pc \in {"next_acq", "next_swap"} /\ ui.cur = k

\* a step seen from the stream _rosdata[k] whose error is set: the error stays
\* set; a call of next() that comes to its error check raises there; unless a
\* call of next() was past the check already, nothing is returned and the
\* buffers keep what they hold; the subscription is ended by no step but
\* clean_up_subscribers; no step of update_plot takes the stream from _rosdata
StickyStep(k) ==
    /\ k \in DOMAIN _rosdata' =>
           /\ _rosdata'[k].error # ""
           /\ ~NextUnderWay(k) =>
                  /\ Len(_rosdata'[k].buff_x) >= Len(_rosdata[k].buff_x)
                  /\ SubSeq(_rosdata'[k].buff_x, 1, Len(_rosdata[k].buff_x)) = _rosdata[k].buff_x
                  /\ Len(_rosdata'[k].buff_y) >= Len(_rosdata[k].buff_y)
                  /\ SubSeq(_rosdata'[k].buff_y, 1, Len(_rosdata[k].buff_y)) = _rosdata[k].buff_y
                  /\ _rosdata'[k].ret_x = _rosdata[k].ret_x
                  /\ _rosdata'[k].ret_y = _rosdata[k].ret_y
           /\ _rosdata'[k].sub # _rosdata[k].sub =>
                  ui.pc = "idle" /\ ui' = ui /\ _rosdata'[k].sub = "destroyed"
    /\ (/\ ui' # ui
        /\ \/ ui.pc \in {"upd_loop", "sw_loop"} /\ ui.topics # <<>> /\ ui.topics[1] = k
           \/ ui.pc = "next_err" /\ ui.cur = k) => ~NextUnderWay(k)'
    /\ ui.op = "update" => k \in DOMAIN _rosdata'

TopicPairs ==
    UNION {{<<query.graph[i][1], query.graph[i][2][j]>> :
               j \in 1..Len(query.graph[i][2])} : i \in 1..Len(query.graph)}

\* the pairs whose name is the whole path, and those whose name and "/" begin it
FullPairs == {m \in TopicPairs : m[1] = query.path}
PrefixPairs == {m \in TopicPairs : StartsWith(query.path, m[1] \o "/")}

\* what the path asks of the pair's message: the rest of the path behind the
\* topic's name, up to the first bracket
Requested(m) == Split(RStrip(DropStr(query.path, Len(m[1]) + 1), "/"), "[")[1]

\* the class of the pair's type is known and its message has the requested field
HasRequested(m) ==
    /\ get_message_class(m[2]) # NoClass
    /\ Requested(m) # ""
    /\ _get_nested_attribute(get_message_class(m[2]), Requested(m))

\* the pair is not rejected: its message has the requested field, or nothing
\* is requested, or the class of its type cannot be loaded
NotRejected(m) ==
    \/ get_message_class(m[2]) = NoClass
    \/ Requested(m) = ""
    \/ HasRequested(m)

\* the pair with the longest name among ms
Longest(ms) == CHOOSE m \in ms : \A o \in ms : Len(o[1]) <= Len(m[1])

\* C19 as stated: a topic named by the whole path is the result; otherwise
\* the result is the longest topic that begins the path and whose message
\* has the requested field; if there is none the result is (None, None, None)
C19_LongestWithField ==
    query.done =>
        IF FullPairs # {}
        THEN query.resolved.found /\ query.resolved.real_topic = query.path
        ELSE IF {m \in PrefixPairs : HasRequested(m)} = {}
        THEN ~query.resolved.found
        ELSE /\ query.resolved.found
             /\ query.resolved.real_topic =
                    Longest({m \in PrefixPairs : HasRequested(m)})[1]

\* C19: a topic named by the whole path is chosen; otherwise the longest
\* topic is chosen that begins the path and is not rejected, a topic being
\* rejected only if its class is known and its message lacks the requested
\* field; the result is the chosen topic and its type, except that it is
\* (None, None, None) if no topic is chosen or the chosen type is "*"
C19_LongestNotRejected ==
    query.done =>
        \E chosen \in {IF FullPairs # {} THEN FullPairs
                        ELSE {m \in PrefixPairs : NotRejected(m)}} :
            IF chosen = {} \/ Longest(chosen)[2] = "*"
            THEN ~query.resolved.found
            ELSE /\ query.resolved.found
                 /\ query.resolved.real_topic = Longest(chosen)[1]
                 /\ query.resolved.topic_type = Longest(chosen)[2]

\* "/t/p/u" resolved where the topic /t/p has a type without u: the longer
\* topic was rejected and the slot p of the shorter topic /t chosen
C19_Witness ==
    /\ query.done
    /\ query.path = "/t/p/u"
    /\ <<"/t/p", "pkg/S">> \in PrefixPairs
    /\ query.resolved.found
    /\ query.resolved.real_topic = "/t"

\* C20: whenever get_topic_type returns a triple that is not (None, None,
\* None), real_topic is the name of a topic of the list, topic_type is one of
\* that topic's types, and real_topic followed by rest is the path asked for
C20_ResultSplitsThePath ==
    (query.done /\ query.resolved.found) =>
        /\ \E i \in 1..Len(query.graph) :
               /\ query.graph[i][1] = query.resolved.real_topic
               /\ query.resolved.topic_type \in Range(query.graph[i][2])
        /\ query.resolved.real_topic \o query.resolved.rest = query.path

\* "/t/p/u" resolved to the topic /t/p of a list of two topics, the rest
\* being "/u"
C20_Witness ==
    /\ query.done
    /\ query.path = "/t/p/u"
    /\ query.resolved.found
    /\ query.resolved.real_topic = "/t/p"
    /\ query.resolved.rest = "/u"
    /\ Len(query.graph) = 2

\* C21: an add_topic for which get_plot_fields returned no path changes no
\* stream, curve, timer or menu; and when add_topic finds the error of the
\* stream it has just built set, that path is left with no entry in _rosdata,
\* no curve and no live subscription, every other stream and every curve is
\* as before, and the timer and the menu are not touched by that step
C21_FailedAddLeavesPanel ==
    [][/\ (ui.pc = "add_loop" /\ ui.topics = <<>> /\ ~ui.changed /\ ~ui.nested
           /\ ui' # ui) =>
              /\ _rosdata' = _rosdata /\ order' = order /\ curves' = curves
              /\ timer' = timer /\ menu' = menu /\ orphan_subs' = orphan_subs
       /\ (ui.pc = "add_check" /\ _rosdata[ui.cur].error # "" /\ ui' # ui) =>
              /\ ui.cur \notin DOMAIN _rosdata'
              /\ ui.cur \notin DOMAIN curves'
              /\ orphan_subs' = orphan_subs
              /\ \A k \in Keys \ {ui.cur} :
                     k \in DOMAIN _rosdata' /\ _rosdata'[k] = _rosdata[k]
              /\ curves' = curves
              /\ timer' = timer /\ menu' = menu
              /\ ui'.changed = ui.changed]_vars

\* the path was resolved and ends at a single message or at the topic itself
MessageQuery ==
    /\ query.done
    /\ query.resolved.found
    /\ get_message_class(query.resolved.topic_type) # NoClass
    /\ ~Leaf.failed
    /\ ~Leaf.is_array
    /\ HasFieldsAndFieldTypes(Leaf.field_class)

\* the slot of the message the path ends at is a single int, float or bool
ScalarSlot(slot) ==
    /\ ~_parse_type(FieldType(Leaf.field_class, slot)).is_array
    /\ get_type_class(_parse_type(FieldType(Leaf.field_class, slot)).slot_type)
           \in {"int", "float", "bool"}

\* C22: for a path that ends at a message or at the topic itself, path/f is
\* among the paths get_plot_fields returns exactly if f is a slot of the
\* message that is a single int, float or bool for which get_plot_fields of
\* path/f returns that one path; and nothing else is returned
C22_EnumerationIsThePlottableChildren ==
    MessageQuery =>
        /\ \A i \in 1..Len(query.children) :
               (query.path \o "/" \o query.children[i].slot) \in Range(query.fields)
                   <=> /\ ScalarSlot(query.children[i].slot)
                       /\ query.children[i].fields =
                              <<query.path \o "/" \o query.children[i].slot>>
        /\ \A j \in 1..Len(query.fields) :
               \E i \in 1..Len(query.children) :
                   query.fields[j] = query.path \o "/" \o query.children[i].slot

\* C23: whenever a surface is set and no handler is running, the remove menu
\* holds one action for every key of _rosdata, in ascending order of the
\* names, followed by "All" exactly if _rosdata holds more than one stream
C23_MenuMirrorsStreams ==
    (ui.pc = "idle" /\ data_plot # 0) =>
        \E n \in {Cardinality(Keys)} :
            /\ Len(menu) = n + (IF n > 1 THEN 1 ELSE 0)
            /\ {menu[i] : i \in 1..n} = Keys
            /\ \A i \in 1..n : \A j \in 1..n : i < j => StrLess(menu[i], menu[j])
            /\ n > 1 => menu[n + 1] = "All"

====
